---- MODULE Spec2Model ----
(***************************************************************************)
(* brave-import: reads the records of a VCF/BCF file, keeps those whose    *)
(* FILTER is PASS (unless --dont-filter), builds one Variant per kept      *)
(* record and POSTs it to <host>/variants (unless --dryrun).               *)
(*                                                                         *)
(* Representation.                                                         *)
(*   Option<T>   None is <<>>, Some(x) is <<x>>.                           *)
(*   String      a sequence of one-character strings, so that split(';')   *)
(*               and split('|') are computed character by character.       *)
(*   f32         a number x is held as the integer x * hundred. Every f32  *)
(*               operation of percentile is exact on the inputs drawn here *)
(*               (small integers, percentiles 0/25/50/75/100).  The mean   *)
(*               is held as the pair <<sum, count>>.                       *)
(*   Vec index   Rust indices are 0-based: v[i] is Nth(v, i).              *)
(***************************************************************************)
EXTENDS Integers, Sequences, FiniteSets, TLC

VARIABLES
    opts,             \* parsed command line: dont_filter, dryrun, debug, disable_ssl
    bcf,              \* the opened file: header and records
    client,           \* the reqwest client builder
    cursor,           \* number of records taken from bcf.records()
    total_variants,
    passed_variants,
    v,                \* Option<Variant>: the Variant of the current iteration
    pc,               \* position in main
    panic,            \* panic of the process, "" while it runs
    posts,            \* requests sent to <host>/variants, with their outcome
    stderr,           \* number of debug traces written
    stdout,           \* lines printed
    fmt,              \* per-sample arrays of one FORMAT tag (statistics specification)
    stat_pc,
    pct,
    q,                \* Option<f32>: percentile result, None when it panics
    dist              \* Option<Distribution>, None when calc_distribution panics

vars == <<opts, bcf, client, cursor, total_variants, passed_variants, v, pc,
          panic, posts, stderr, stdout, fmt, stat_pc, pct, q, dist>>

mainVars == <<opts, bcf, client, cursor, total_variants, passed_variants, v, pc,
              panic, posts, stderr, stdout>>

statVars == <<fmt, stat_pc, pct, q, dist>>

----------------------------------------------------------------------------
(* Program constants *)

GENE_SYMBOL == 3
TYPE == 5
HGVS == 9
CREATED == 201
hundred == 100

(* Bounds *)

MaxRecords == 3
MaxLen == 4
MaxVal == 4

----------------------------------------------------------------------------
(* Option and Vec helpers *)

None == <<>>
Some(x) == <<x>>
IsSome(o) == Len(o) = 1
Unwrap(o) == o[1]

Nth(s, i) == s[i + 1]

SeqsUpTo(S, n) == UNION {[1..k -> S] : k \in 0..n}

RECURSIVE Sum(_)
Sum(s) == IF s = <<>> THEN 0 ELSE s[1] + Sum(Tail(s))

\* str::split(sep): the pieces between separators, empty pieces included.
RECURSIVE Split(_, _)
Split(s, sep) ==
    IF \A i \in 1..Len(s) : s[i] # sep
    THEN <<s>>
    ELSE LET k == CHOOSE i \in 1..Len(s) :
                      s[i] = sep /\ \A j \in 1..(i - 1) : s[j] # sep
         IN  <<SubSeq(s, 1, k - 1)>> \o Split(SubSeq(s, k + 1, Len(s)), sep)

\* Vec::sort on i64: insertion of each element into the sorted rest.
RECURSIVE Insert(_, _)
Insert(x, s) ==
    IF s = <<>> THEN <<x>>
    ELSE IF x <= s[1] THEN <<x>> \o s
    ELSE <<s[1]>> \o Insert(x, Tail(s))

RECURSIVE Sort(_)
Sort(s) == IF s = <<>> THEN <<>> ELSE Insert(s[1], Sort(Tail(s)))

----------------------------------------------------------------------------
(* Statistics *)

F32(x) == x * hundred

\* percentile with the rank taken over the length instead of length - 1.
percentile_rank_over_len(sorted_values, p) ==
    IF sorted_values = <<>> THEN None
    ELSE IF Len(sorted_values) = 1 THEN Some(F32(Nth(sorted_values, 0)))
    ELSE IF ~(0 <= p) \/ ~(p <= hundred) THEN None
    ELSE IF p = hundred
         THEN Some(F32(Nth(sorted_values, Len(sorted_values) - 1)))
    ELSE LET length == Len(sorted_values)
             rank   == p * length
             n      == rank \div hundred
             d      == rank - n * hundred
         IN  IF n + 1 > Len(sorted_values) - 1 THEN None
             ELSE LET lo == Nth(sorted_values, n)
                      hi == Nth(sorted_values, n + 1)
                  IN  Some(lo * hundred + (hi - lo) * d)

\* percentile(sorted_values, pct); None is a panic (failed assert or index
\* out of bounds).
percentile(sorted_values, p) ==
    IF sorted_values = <<>> THEN None
    ELSE IF Len(sorted_values) = 1 THEN Some(F32(Nth(sorted_values, 0)))
    ELSE IF ~(0 <= p) \/ ~(p <= hundred) THEN None
    ELSE IF p = hundred
         THEN Some(F32(Nth(sorted_values, Len(sorted_values) - 1)))
    ELSE LET length == Len(sorted_values) - 1
             rank   == p * length              \* rank * hundred
             n      == rank \div hundred       \* lrank as usize
             d      == rank - n * hundred      \* d * hundred
         IN  IF n + 1 > Len(sorted_values) - 1 THEN None
             ELSE LET lo == Nth(sorted_values, n)
                      hi == Nth(sorted_values, n + 1)
                  IN  Some(lo * hundred + (hi - lo) * d)

\* calc_distribution, lines 229-237: the first value of each sample, sorted.
sorted_values_of(samples) ==
    Sort([i \in 1..Len(samples) |-> Nth(samples[i], 0)])

\* calc_distribution answering an empty collection with zeros.
calc_distribution_zero_filled(tag) ==
    IF ~IsSome(tag) THEN None
    ELSE LET sorted == sorted_values_of(Unwrap(tag))
         IN  IF sorted = <<>>
             THEN Some([min |-> 0, q25 |-> 0, median |-> 0, q75 |-> 0, max |-> 0,
                        mean |-> <<0, 0>>])
             ELSE Some([min    |-> F32(Nth(sorted, 0)),
                        q25    |-> Unwrap(percentile(sorted, 25)),
                        median |-> Unwrap(percentile(sorted, 50)),
                        q75    |-> Unwrap(percentile(sorted, 75)),
                        max    |-> F32(Nth(sorted, Len(sorted) - 1)),
                        mean   |-> <<Sum(sorted), Len(sorted)>>])

\* calc_distribution on the per-sample arrays of one FORMAT tag; tag is
\* None when it cannot be read as integers (unwrap panics).  None is a panic.
calc_distribution(tag) ==
    IF ~IsSome(tag) THEN None
    ELSE LET sorted == sorted_values_of(Unwrap(tag))
         IN  IF sorted = <<>> THEN None
             ELSE Some([min    |-> F32(Nth(sorted, 0)),
                        q25    |-> Unwrap(percentile(sorted, 25)),
                        median |-> Unwrap(percentile(sorted, 50)),
                        q75    |-> Unwrap(percentile(sorted, 75)),
                        max    |-> F32(Nth(sorted, Len(sorted) - 1)),
                        mean   |-> <<Sum(sorted), Len(sorted)>>])

----------------------------------------------------------------------------
(* Record fields *)

\* get_snp_ids
get_snp_ids(record) ==
    IF record.id = <<".">> THEN None ELSE Some(Split(record.id, ";"))

\* get_allele_frequency(&record).unwrap().unwrap_or_default()
get_allele_frequency(record) ==
    IF IsSome(record.info.AF) THEN Unwrap(record.info.AF) ELSE <<>>

\* get_info_field: the values of a string INFO tag, None when the record
\* does not carry the tag.
get_info_field(record, tag) == record.info[tag]

\* split_ann
split_ann(ann) == Split(ann, "|")

\* get_field counting the sub-fields from 1.
get_field_from_one(fields, index) ==
    IF \E i \in 1..Len(fields) : index > Len(fields[i]) THEN None
    ELSE Some([i \in 1..Len(fields) |-> fields[i][index]])

\* get_field; None is the index-out-of-bounds panic of x[index].
get_field(fields, index) ==
    IF \E i \in 1..Len(fields) : index >= Len(fields[i]) THEN None
    ELSE Some([i \in 1..Len(fields) |-> Nth(fields[i], index)])

\* clnsig taking the last value.
clnsig_of_last(record) ==
    IF IsSome(get_info_field(record, "CLNSIG"))
    THEN Some(Nth(Unwrap(get_info_field(record, "CLNSIG")),
                  Len(Unwrap(get_info_field(record, "CLNSIG"))) - 1))
    ELSE None

\* main, line 166: the clnsig of the Variant.
clnsig_of(record) ==
    IF IsSome(get_info_field(record, "CLNSIG"))
    THEN Some(Nth(Unwrap(get_info_field(record, "CLNSIG")), 0))
    ELSE None

\* main, lines 168-172.
sample_count_of(record, has_ns) ==
    IF has_ns /\ IsSome(record.info.NS)
    THEN Some(Nth(Unwrap(record.info.NS), 0))
    ELSE None

\* main, lines 174-183: <<gene_symbol, variant_type, hgvs>>, each an
\* Option<Vec<String>>; None (of the whole) when a get_field panics.
annotation_of(record) ==
    LET maybe_ann == get_info_field(record, "ANN")
    IN  IF IsSome(maybe_ann)
        THEN LET fields == [i \in 1..Len(Unwrap(maybe_ann)) |->
                                split_ann(Unwrap(maybe_ann)[i])]
                 gene_symbol  == get_field(fields, GENE_SYMBOL)
                 variant_type == get_field(fields, TYPE)
                 hgvs         == get_field(fields, HGVS)
             IN  IF IsSome(gene_symbol) /\ IsSome(variant_type) /\ IsSome(hgvs)
                 THEN Some(<<gene_symbol, variant_type, hgvs>>)
                 ELSE None
        ELSE Some(<<None, None, None>>)

\* The first panic of main's lines 137-183 on this record, "" when the
\* Variant can be built.  The order is the order of the statements.
normalize_panic(record) ==
    IF ~IsSome(record.format.DP) THEN "format DP unwrap"
    ELSE IF ~IsSome(calc_distribution(record.format.DP)) THEN "index out of bounds: DP values"
    ELSE IF ~IsSome(record.format.GQ) THEN "format GQ unwrap"
    ELSE IF ~IsSome(calc_distribution(record.format.GQ)) THEN "index out of bounds: GQ values"
    ELSE IF ~IsSome(record.rid) THEN "Missing CHROM at position"
    ELSE IF record.alleles = <<>> THEN "Missing REF at position"
    ELSE IF ~IsSome(annotation_of(record)) THEN "index out of bounds: annotation field"
    ELSE ""

\* main, lines 137-203: the Variant built from a record.
build_variant(record, header, o) ==
    [id               |-> None,
     dataset_id       |-> o.dataset,
     total_samples    |-> header.sample_count,
     assembly_id      |-> o.assembly,
     snp_ids          |-> get_snp_ids(record),
     reference_name   |-> Nth(header.contigs, Unwrap(record.rid)),
     start            |-> record.pos + 1,
     reference_bases  |-> Nth(record.alleles, 0),
     alternate_bases  |-> Tail(record.alleles),
     gene_symbol      |-> Unwrap(annotation_of(record))[1],
     allele_frequency |-> get_allele_frequency(record),
     sample_count     |-> sample_count_of(record, header.has_ns),
     coverage         |-> Unwrap(calc_distribution(record.format.DP)),
     genotype_quality |-> Unwrap(calc_distribution(record.format.GQ)),
     clnsig           |-> clnsig_of(record),
     hgvs             |-> Unwrap(annotation_of(record))[3],
     variant_type     |-> Unwrap(annotation_of(record))[2]]

\* serde serialization of a Variant: the renamed keys of the JSON object.
json(x) ==
    [id              |-> x.id,
     datasetId       |-> x.dataset_id,
     totalSamples    |-> x.total_samples,
     assemblyId      |-> x.assembly_id,
     snpIds          |-> x.snp_ids,
     referenceName   |-> x.reference_name,
     start           |-> x.start,
     referenceBases  |-> x.reference_bases,
     alternateBases  |-> x.alternate_bases,
     geneSymbol      |-> x.gene_symbol,
     alleleFrequency |-> x.allele_frequency,
     sampleCount     |-> x.sample_count,
     coverage        |-> x.coverage,
     genotypeQuality |-> x.genotype_quality,
     clnsig          |-> x.clnsig,
     hgvs            |-> x.hgvs,
     type            |-> x.variant_type]

\* The filter decision without --dont-filter.
passes_filter_always_filtering(record, o) == record.has_filter_PASS

\* main, line 131: the record is kept.
passes_filter(record, o) == ~(~o.dont_filter /\ ~record.has_filter_PASS)

\* main, line 119.
client_builder(o) == [danger_accept_invalid_certs |-> ~o.disable_ssl]

----------------------------------------------------------------------------
(* Input files *)

Ann1 == <<"A", "|", "B", "|", "C", "|", "G", "E", "N", "E", "1", "|", "E", "|", "T", "Y", "P", "E", "1", "|", "G", "|", "H", "|", "I", "|", "H", "G", "V", "S", "1">>
Ann2 == <<"A", "|", "B", "|", "C", "|", "G", "E", "N", "E", "2", "|", "E", "|", "T", "Y", "P", "E", "2", "|", "G", "|", "H", "|", "I", "|", "H", "G", "V", "S", "2">>
AnnShort == <<"A", "|", "B", "|", "C", "|", "G", "E", "N", "E", "3">>

Header(n, ns) ==
    [sample_count |-> n, has_ns |-> ns, contigs |-> <<<<"c", "h", "r", "1">>, <<"c", "h", "r", "2">>>>]

HeaderSet == {Header(0, FALSE), Header(2, FALSE), Header(2, TRUE)}

\* The per-sample arrays of a record of a file with n samples.
Samples(arrays, n) == SubSeq(arrays, 1, n)

Rec(pass, id, dp, gq, rid, alleles, clnsig, nsv, ann) ==
    [has_filter_PASS |-> pass, id |-> id, pos |-> 99, rid |-> rid,
     alleles |-> alleles,
     format |-> [DP |-> dp, GQ |-> gq],
     info |-> [AF |-> IF Len(alleles) > 1 THEN Some([a \in 1..(Len(alleles) - 1) |-> 25])
                      ELSE None,
               CLNSIG |-> clnsig, NS |-> nsv, ANN |-> ann]]

\* The records a file with n samples is made of.
RecordPool(n) ==
    LET dp == Some(Samples(<<<<30>>, <<11>>>>, n))
        gq == Some(Samples(<<<<40, 7>>, <<99, 3>>>>, n))
        A  == <<"A">>
        T  == <<"T">>
        G  == <<"G">>
        v1 == <<"v", "1">>
        v2 == <<"v", "2">>
    IN  { Rec(TRUE, <<"r", "s", "1", ";", "r", "s", "2">>, dp, gq, Some(0), <<A, T, G>>, Some(<<v1, v2>>),
              Some(<<n>>), Some(<<Ann1, Ann2>>)),
          Rec(TRUE, <<".">>, dp, gq, Some(1), <<G>>, None, None, None),
          Rec(FALSE, <<".">>, dp, gq, Some(0), <<A, T>>, Some(<<v2>>),
              Some(<<n>>), Some(<<Ann2>>)),
          Rec(TRUE, <<"r", "s", "1">>, dp, gq, None, <<A, T>>, Some(<<v1>>), None, None),
          Rec(TRUE, <<".">>, dp, gq, Some(0), <<>>, None, None, Some(<<Ann1>>)),
          Rec(TRUE, <<".">>, dp, gq, Some(1), <<A, G>>, Some(<<v1, v2>>), None,
              Some(<<Ann1, AnnShort>>)) }

\* Ten records, seven of them PASS, all well formed.
ExampleFile ==
    LET h    == Header(2, TRUE)
        good == CHOOSE r \in RecordPool(2) : r.has_filter_PASS /\ IsSome(r.info.NS)
        bare == CHOOSE r \in RecordPool(2) :
                    r.has_filter_PASS /\ normalize_panic(r) = "" /\ ~IsSome(r.info.NS)
        low  == CHOOSE r \in RecordPool(2) : ~r.has_filter_PASS /\ IsSome(r.info.NS)
    IN  [header |-> h,
         records |-> <<good, low, bare, good, low, bare, good, low, good, bare>>]

Files ==
    {ExampleFile} \cup
    UNION {{[header |-> h, records |-> rs] :
               rs \in SeqsUpTo(RecordPool(h.sample_count), MaxRecords)} :
           h \in HeaderSet}

OptsSet ==
    [dont_filter : BOOLEAN, dryrun : BOOLEAN, debug : BOOLEAN, disable_ssl : BOOLEAN,
     dataset : {"bipmed"}, assembly : {"GRCh38"}]

\* What send() can come back with: None is a transport error, Some(s) a
\* response with status s.
Responses == {None, Some(200), Some(CREATED), Some(500)}

----------------------------------------------------------------------------
(* main *)

StatIdle ==
    /\ fmt = None
    /\ stat_pc = "off"
    /\ pct = 0
    /\ q = None
    /\ dist = None

\* main, lines 100-124.
Init ==
    /\ opts \in OptsSet
    /\ bcf \in Files
    /\ client = client_builder(opts)
    /\ cursor = 0
    /\ total_variants = 0
    /\ passed_variants = 0
    /\ v = None
    /\ pc = "records"
    /\ panic = ""
    /\ posts = <<>>
    /\ stderr = 0
    /\ stdout = <<>>
    /\ StatIdle

record == bcf.records[cursor]

\* main, lines 126-129: the iterator yields the next record.
NextRecord ==
    /\ pc = "records"
    /\ cursor < Len(bcf.records)
    /\ cursor' = cursor + 1
    /\ total_variants' = total_variants + 1
    /\ pc' = "filter"
    /\ UNCHANGED <<opts, bcf, client, passed_variants, v, panic, posts, stderr, stdout>>
    /\ UNCHANGED statVars

\* A filtered-out record that falls through to the normalization.
FilterOut_falls_through ==
    /\ pc = "filter"
    /\ ~passes_filter(record, opts)
    /\ pc' = "normalize"
    /\ UNCHANGED <<opts, bcf, client, cursor, total_variants, passed_variants, v,
                   panic, posts, stderr, stdout>>
    /\ UNCHANGED statVars

\* main, lines 131-133: the record is filtered out.
FilterOut ==
    /\ pc = "filter"
    /\ ~passes_filter(record, opts)
    /\ pc' = "records"
    /\ UNCHANGED <<opts, bcf, client, cursor, total_variants, passed_variants, v,
                   panic, posts, stderr, stdout>>
    /\ UNCHANGED statVars

\* main, lines 131-135: the record is kept.
FilterPass ==
    /\ pc = "filter"
    /\ passes_filter(record, opts)
    /\ passed_variants' = passed_variants + 1
    /\ pc' = "normalize"
    /\ UNCHANGED <<opts, bcf, client, cursor, total_variants, v, panic, posts,
                   stderr, stdout>>
    /\ UNCHANGED statVars

\* main, lines 137-207: the Variant is built and traced under --debug.
Normalize ==
    /\ pc = "normalize"
    /\ normalize_panic(record) = ""
    /\ v' = Some(build_variant(record, bcf.header, opts))
    /\ stderr' = IF opts.debug THEN stderr + 1 ELSE stderr
    /\ pc' = "send"
    /\ UNCHANGED <<opts, bcf, client, cursor, total_variants, passed_variants,
                   panic, posts, stdout>>
    /\ UNCHANGED statVars

\* main, lines 137-183: a statement panics, the process ends.
NormalizePanic ==
    /\ pc = "normalize"
    /\ normalize_panic(record) # ""
    /\ panic' = normalize_panic(record)
    /\ pc' = "aborted"
    /\ UNCHANGED <<opts, bcf, client, cursor, total_variants, passed_variants, v,
                   posts, stderr, stdout>>
    /\ UNCHANGED statVars

\* The dry-run test looking at --debug instead of --dryrun.
skips_send_on_debug(o) == o.debug

\* main, line 209: the Variant is not sent.
skips_send(o) == o.dryrun

\* main, lines 209-211.
DryrunContinue ==
    /\ pc = "send"
    /\ skips_send(opts)
    /\ v' = None
    /\ pc' = "records"
    /\ UNCHANGED <<opts, bcf, client, cursor, total_variants, passed_variants,
                   panic, posts, stderr, stdout>>
    /\ UNCHANGED statVars

\* The response check accepting every 2xx status.
post_panic_any_success(res) ==
    IF ~IsSome(res) THEN "send unwrap"
    ELSE IF Unwrap(res) \div 100 # 2 THEN "assertion failed: status"
    ELSE ""

\* The outcome of main's lines 213-219 for a response: "" when the loop
\* goes on, the panic otherwise.
post_panic(res) ==
    IF ~IsSome(res) THEN "send unwrap"
    ELSE IF Unwrap(res) # CREATED THEN "assertion failed: status"
    ELSE ""

\* main, lines 213-219: the Variant is sent and the response checked.
Post(res) ==
    /\ pc = "send"
    /\ ~skips_send(opts)
    /\ posts' = Append(posts, [record |-> cursor,
                               body |-> json(Unwrap(v)),
                               danger_accept_invalid_certs |->
                                   client.danger_accept_invalid_certs,
                               res |-> res])
    /\ panic' = post_panic(res)
    /\ pc' = IF post_panic(res) = "" THEN "records" ELSE "aborted"
    /\ v' = IF post_panic(res) = "" THEN None ELSE v
    /\ UNCHANGED <<opts, bcf, client, cursor, total_variants, passed_variants,
                   stderr, stdout>>
    /\ UNCHANGED statVars

\* The report printing the passed count whatever the filter mode.
report_both(total, passed, do_filter) ==
    <<<<"Total variants", total>>, <<"Passed variants", passed>>>>

\* main, lines 222-225.
report(total, passed, do_filter) ==
    IF do_filter
    THEN <<<<"Total variants", total>>, <<"Passed variants", passed>>>>
    ELSE <<<<"Total variants", total>>>>

Report ==
    /\ pc = "records"
    /\ cursor = Len(bcf.records)
    /\ stdout' = stdout \o report(total_variants, passed_variants, ~opts.dont_filter)
    /\ pc' = "done"
    /\ UNCHANGED <<opts, bcf, client, cursor, total_variants, passed_variants, v,
                   panic, posts, stderr>>
    /\ UNCHANGED statVars

Next ==
    \/ NextRecord
    \/ FilterOut
    \/ FilterPass
    \/ Normalize
    \/ NormalizePanic
    \/ DryrunContinue
    \/ \E res \in Responses : Post(res)
    \/ Report

Spec == Init /\ [][Next]_vars

----------------------------------------------------------------------------
(* Statistics on their own: percentile and calc_distribution applied to    *)
(* every per-sample collection within the bounds.                          *)

Percentiles == {0, 25, 50, 75, 100}

InitStats ==
    /\ opts = [dont_filter |-> FALSE, dryrun |-> TRUE, debug |-> FALSE,
               disable_ssl |-> FALSE, dataset |-> "bipmed", assembly |-> "GRCh38"]
    /\ bcf = [header |-> Header(0, FALSE), records |-> <<>>]
    /\ client = client_builder(opts)
    /\ cursor = 0
    /\ total_variants = 0
    /\ passed_variants = 0
    /\ v = None
    /\ pc = "stats"
    /\ panic = ""
    /\ posts = <<>>
    /\ stderr = 0
    /\ stdout = <<>>
    /\ fmt \in {Some(s) : s \in SeqsUpTo({<<x>> : x \in 0..MaxVal}, MaxLen)}
    /\ stat_pc = "input"
    /\ pct = 0
    /\ q = None
    /\ dist = None

StatPercentile(p) ==
    /\ stat_pc = "input"
    /\ pct' = p
    /\ q' = percentile(sorted_values_of(Unwrap(fmt)), p)
    /\ stat_pc' = "percentile"
    /\ UNCHANGED <<fmt, dist>>
    /\ UNCHANGED mainVars

StatDistribution ==
    /\ stat_pc = "input"
    /\ dist' = calc_distribution(fmt)
    /\ stat_pc' = "distribution"
    /\ UNCHANGED <<fmt, pct, q>>
    /\ UNCHANGED mainVars

NextStats ==
    \/ \E p \in Percentiles : StatPercentile(p)
    \/ StatDistribution

SpecStats == InitStats /\ [][NextStats]_vars

----------------------------------------------------------------------------
(* Vocabulary of the properties, stated on the input file alone *)

Records == bcf.records

\* Record i is kept by the filter decision.
Passing(i) == opts.dont_filter \/ Records[i].has_filter_PASS

\* The number of kept records among the first k.
PassingUpTo(k) == Cardinality({j \in 1..k : Passing(j)})

\* The indices of the kept records among the first k, ascending.
RECURSIVE PassingIdx(_)
PassingIdx(k) ==
    IF k = 0 THEN <<>>
    ELSE IF Passing(k) THEN Append(PassingIdx(k - 1), k)
    ELSE PassingIdx(k - 1)

\* The positions of the separator in a string, and the sub-field j
\* (counted from 0) they delimit.
SepPos(b, sep) == {i \in 1..Len(b) : b[i] = sep}

Bound(b, sep, j) ==
    IF j = 0 THEN 0
    ELSE IF j > Cardinality(SepPos(b, sep)) THEN Len(b) + 1
    ELSE CHOOSE i \in SepPos(b, sep) :
             Cardinality({m \in SepPos(b, sep) : m <= i}) = j

SubField(b, j) == SubSeq(b, Bound(b, "|", j) + 1, Bound(b, "|", j + 1) - 1)

FieldCount(b) == Cardinality(SepPos(b, "|")) + 1

\* A record the Variant cannot be built from.
Malformed(r) ==
    \/ r.format.DP = None \/ r.format.GQ = None
    \/ r.format.DP = Some(<<>>) \/ r.format.GQ = Some(<<>>)
    \/ r.rid = None
    \/ r.alleles = <<>>
    \/ /\ r.info.ANN # None
       /\ \E i \in 1..Len(r.info.ANN[1]) : FieldCount(r.info.ANN[1][i]) < 10

\* The strings joined by commas.
RECURSIVE JoinComma(_)
JoinComma(ss) ==
    IF ss = <<>> THEN <<>>
    ELSE IF Len(ss) = 1 THEN ss[1]
    ELSE ss[1] \o <<",">> \o JoinComma(Tail(ss))

----------------------------------------------------------------------------
(* Properties *)

\* C1: in a run that is not a dry run, a POST that comes back with anything
\* but 201 is the last POST of the run, and the run is aborted at the record
\* it was sent for: that record is the last one read and counted, its
\* Variant is the last one built, and nothing is reported.
C1_FailedPostAborts ==
    \A i \in 1..Len(posts) :
        posts[i].res # <<201>> =>
            /\ ~opts.dryrun
            /\ i = Len(posts)
            /\ pc = "aborted"
            /\ panic # ""
            /\ Passing(cursor)
            /\ PassingUpTo(cursor) = i
            /\ total_variants = cursor
            /\ passed_variants = i
            /\ v # <<>> /\ json(v[1]) = posts[i].body
            /\ stdout = <<>>

C1_Witness ==
    /\ pc = "aborted"
    /\ Len(posts) = 2
    /\ posts[1].res = <<201>>
    /\ posts[2].res = <<200>>
    /\ cursor = 2
    /\ Len(Records) = 3

\* C2: in dry-run mode no request is ever sent; every kept record is
\* normalized and its Variant dropped; the run stops early only on a record
\* no Variant can be built from, and otherwise ends by reporting the counts
\* of the whole file (Total 10, Passed 7 on the ten-record example).
C2_DryrunSendsNothing ==
    opts.dryrun =>
        /\ posts = <<>>
        /\ pc \in {"records", "done"} => v = <<>>
        /\ (opts.debug /\ pc \in {"records", "done"}) => stderr = PassingUpTo(cursor)
        /\ pc = "aborted" => Passing(cursor) /\ Malformed(Records[cursor])
        /\ pc = "done" =>
              /\ stdout[1] = <<"Total variants", Len(Records)>>
              /\ ~opts.dont_filter =>
                    stdout[2] = <<"Passed variants", PassingUpTo(Len(Records))>>
        /\ (pc = "done" /\ bcf = ExampleFile /\ ~opts.dont_filter) =>
              stdout = <<<<"Total variants", 10>>, <<"Passed variants", 7>>>>

C2_Witness ==
    /\ opts.dryrun
    /\ ~opts.dont_filter
    /\ Len(Records) = 10
    /\ pc = "done"
    /\ stdout = <<<<"Total variants", 10>>, <<"Passed variants", 7>>>>
    /\ posts = <<>>

\* C3: in a run that is not a dry run, the requests sent so far are the
\* Variants of the kept records, in input order, one request per record:
\* all kept records before the current one have been sent when the current
\* one is read, a record that is filtered out is never sent, and a step
\* sends at most one request and leaves the earlier ones as they are.
C3_PostsState ==
    ~opts.dryrun =>
        /\ PassingUpTo(cursor - 1) <= Len(posts)
        /\ Len(posts) <= PassingUpTo(cursor)
        /\ \A i \in 1..Len(posts) : posts[i].record = PassingIdx(cursor)[i]
        /\ pc \in {"records", "done"} => Len(posts) = PassingUpTo(cursor)

C3_PostsStep ==
    \/ posts' = posts
    \/ /\ Len(posts') = Len(posts) + 1
       /\ SubSeq(posts', 1, Len(posts)) = posts
       /\ cursor' = cursor
       /\ posts'[Len(posts')].record = cursor
       /\ posts'[Len(posts')].body =
              json(build_variant(Records[cursor], bcf.header, opts))

C3_PostsFollowInputOrder == [](C3_PostsState) /\ [][C3_PostsStep]_vars

C3_Witness ==
    /\ ~opts.dryrun
    /\ ~opts.dont_filter
    /\ pc = "done"
    /\ Len(Records) = 10
    /\ [i \in 1..Len(posts) |-> posts[i].record] = <<1, 3, 4, 6, 7, 9, 10>>


\* C4: a record is normalized and counted as passed exactly when filtering
\* is disabled or its FILTER is PASS: the passed counter is the number of
\* such records read, only such a record has a Variant or a request, with
\* filtering disabled the two counters agree after each record, and a
\* filtered-out record leaves the loop with nothing built or sent.
C4_FilterDecision ==
    /\ pc # "filter" => passed_variants = PassingUpTo(cursor)
    /\ pc = "filter" => passed_variants = PassingUpTo(cursor - 1)
    /\ pc \in {"normalize", "send", "aborted"} => Passing(cursor)
    /\ v # <<>> => Passing(cursor)
    /\ \A i \in 1..Len(posts) : Passing(posts[i].record)
    /\ (opts.dont_filter /\ pc # "filter") => passed_variants = total_variants
    /\ (opts.debug /\ pc \in {"records", "done"} /\ \A j \in 1..cursor : ~Malformed(Records[j]))
          => stderr = PassingUpTo(cursor)
    /\ (cursor > 0 /\ pc # "filter" /\ ~Passing(cursor)) =>
          /\ pc \in {"records", "done"}
          /\ v = <<>>
          /\ Len(posts) <= PassingUpTo(cursor - 1)

C4_Witness ==
    /\ opts.dont_filter
    /\ ~opts.dryrun
    /\ pc = "records"
    /\ cursor = 2
    /\ ~Records[1].has_filter_PASS
    /\ Records[2].has_filter_PASS
    /\ passed_variants = 2
    /\ Len(posts) = 2

\* C5: the counters start at 0, passed <= total, total is the number of
\* records read, a step leaves a counter alone or adds one to it, and the
\* counts are printed once, after the last record, the passed count only
\* when filtering is active.
C5_CounterState ==
    /\ passed_variants <= total_variants
    /\ total_variants = cursor
    /\ cursor = 0 => passed_variants = 0
    /\ pc # "done" => stdout = <<>>
    /\ pc = "done" =>
          /\ cursor = Len(Records)
          /\ stdout = IF opts.dont_filter
                      THEN <<<<"Total variants", total_variants>>>>
                      ELSE <<<<"Total variants", total_variants>>,
                             <<"Passed variants", passed_variants>>>>

C5_CounterStep ==
    /\ total_variants' \in {total_variants, total_variants + 1}
    /\ passed_variants' \in {passed_variants, passed_variants + 1}
    /\ stdout # <<>> => stdout' = stdout

C5_Counters == [](C5_CounterState) /\ [][C5_CounterStep]_vars

C5_Witness ==
    /\ pc = "done"
    /\ opts.dont_filter
    /\ total_variants = 2
    /\ \E i \in 1..2 : ~Records[i].has_filter_PASS
    /\ Len(stdout) = 1

\* C6: a kept record no Variant can be built from stops the run at that
\* record: it is the last record read, no Variant exists and no request is
\* sent for it, nothing is reported, and the requests of the earlier kept
\* records, all answered 201, are still the requests sent.
C6_FailFast ==
    \A k \in 1..cursor :
        (Passing(k) /\ Malformed(Records[k])) =>
            /\ k = cursor
            /\ pc \in {"filter", "normalize", "aborted"}
            /\ v = <<>>
            /\ pc = "aborted" => panic # ""
            /\ stdout = <<>>
            /\ Len(posts) = IF opts.dryrun THEN 0 ELSE PassingUpTo(k - 1)
            /\ \A i \in 1..Len(posts) :
                  /\ posts[i].res = <<201>>
                  /\ posts[i].record < k

C6_Witness ==
    /\ pc = "aborted"
    /\ ~opts.dryrun
    /\ cursor = 2
    /\ Len(Records) = 3
    /\ Malformed(Records[2])
    /\ Records[2].alleles = <<>>
    /\ Len(posts) = 1
    /\ posts[1].res = <<201>>

\* C7: on the ascending values S of a non-empty collection, percentile
\* never panics (its indices stay within S); it is S[0] for one element,
\* S[0] at 0 and the last element at 100; below 100 it interpolates between
\* the two neighbours of the fractional rank (p/100)*(n-1), giving 1.75,
\* 2.5 and 3.25 on [1,2,3,4]; and the Distribution built from S has
\* min <= q25 <= median <= q75 <= max.  Numbers are in hundredths.
C7_Percentile ==
    LET S == sorted_values_of(fmt[1])
        n == Len(S)
    IN  /\ (stat_pc = "percentile" /\ n >= 1) =>
              /\ q # <<>>
              /\ n = 1 => q[1] = 100 * S[1]
              /\ (n >= 2 /\ pct = 0) => q[1] = 100 * S[1]
              /\ (n >= 2 /\ pct = 100) => q[1] = 100 * S[n]
              /\ (n >= 2 /\ pct < 100) =>
                    \E lo \in 1..(n - 1) :
                        /\ 100 * (lo - 1) <= pct * (n - 1)
                        /\ pct * (n - 1) < 100 * lo
                        /\ q[1] = 100 * S[lo]
                                  + (S[lo + 1] - S[lo]) * (pct * (n - 1) - 100 * (lo - 1))
              /\ S = <<1, 2, 3, 4>> =>
                    /\ pct = 25 => q[1] = 175
                    /\ pct = 50 => q[1] = 250
                    /\ pct = 75 => q[1] = 325
        /\ (stat_pc = "distribution" /\ n >= 1) =>
              /\ dist # <<>>
              /\ dist[1].min = 100 * S[1]
              /\ dist[1].max = 100 * S[n]
              /\ dist[1].min <= dist[1].q25
              /\ dist[1].q25 <= dist[1].median
              /\ dist[1].median <= dist[1].q75
              /\ dist[1].q75 <= dist[1].max

C7_Witness ==
    /\ stat_pc = "percentile"
    /\ fmt = <<<< <<3>>, <<1>>, <<4>>, <<2>> >>>>
    /\ pct = 75
    /\ q = <<325>>

\* C8: in every Variant built, and in the body of the latest request,
\* geneSymbol, type and hgvs are all absent when the record has no ANN, and otherwise all
\* present with one entry per annotation block, entry i being sub-field 3,
\* 5 and 9 of block i.
AnnotationAgrees(r, gene_symbol, variant_type, hgvs) ==
    IF r.info.ANN = <<>>
    THEN gene_symbol = <<>> /\ variant_type = <<>> /\ hgvs = <<>>
    ELSE LET blocks == r.info.ANN[1]
         IN  /\ gene_symbol # <<>> /\ variant_type # <<>> /\ hgvs # <<>>
             /\ Len(gene_symbol[1]) = Len(blocks)
             /\ Len(variant_type[1]) = Len(blocks)
             /\ Len(hgvs[1]) = Len(blocks)
             /\ \A i \in 1..Len(blocks) :
                   /\ gene_symbol[1][i] = SubField(blocks[i], 3)
                   /\ variant_type[1][i] = SubField(blocks[i], 5)
                   /\ hgvs[1][i] = SubField(blocks[i], 9)
             /\ blocks = <<Ann1, Ann2>> =>
                   /\ gene_symbol[1] = <<<<"G", "E", "N", "E", "1">>, <<"G", "E", "N", "E", "2">>>>
                   /\ variant_type[1] = <<<<"T", "Y", "P", "E", "1">>, <<"T", "Y", "P", "E", "2">>>>
                   /\ hgvs[1] = <<<<"H", "G", "V", "S", "1">>, <<"H", "G", "V", "S", "2">>>>

C8_AnnotationLists ==
    /\ v # <<>> =>
          AnnotationAgrees(Records[cursor], v[1].gene_symbol, v[1].variant_type, v[1].hgvs)
    /\ posts # <<>> =>
          LET last == posts[Len(posts)]
          IN  AnnotationAgrees(Records[last.record], last.body.geneSymbol,
                               last.body.type, last.body.hgvs)

C8_Witness ==
    /\ Len(posts) = 2
    /\ Records[1].info.ANN = <<>>
    /\ posts[1].body.geneSymbol = <<>>
    /\ Records[2].info.ANN = <<<<Ann1, Ann2>>>>
    /\ posts[2].body.type = <<<<<<"T", "Y", "P", "E", "1">>, <<"T", "Y", "P", "E", "2">>>>>>

\* C9 as stated: the clnsig of a Variant is absent when the record has no
\* CLNSIG, and otherwise all the CLNSIG values joined by commas.
C9_ClnsigJoined ==
    v # <<>> =>
        v[1].clnsig = IF Records[cursor].info.CLNSIG = <<>> THEN <<>>
                      ELSE <<JoinComma(Records[cursor].info.CLNSIG[1])>>

\* C9 amended: the clnsig of a Variant, and of a request body, is absent
\* when the record has no CLNSIG, and otherwise the first CLNSIG value only.
ClnsigFirst(r, clnsig) ==
    clnsig = IF r.info.CLNSIG = <<>> THEN <<>> ELSE <<r.info.CLNSIG[1][1]>>

C9_ClnsigFirstValue ==
    /\ v # <<>> => ClnsigFirst(Records[cursor], v[1].clnsig)
    /\ \A i \in 1..Len(posts) : ClnsigFirst(Records[posts[i].record], posts[i].body.clnsig)

C9_Witness ==
    /\ v # <<>>
    /\ Records[cursor].info.CLNSIG = <<<<<<"v", "1">>, <<"v", "2">>>>>>
    /\ v[1].clnsig = <<<<"v", "1">>>>

\* C10: every request of a run is sent by a client that accepts invalid
\* certificates exactly when --disable-ssl was given.
C10_DisableSsl ==
    \A i \in 1..Len(posts) :
        /\ posts[i].danger_accept_invalid_certs = opts.disable_ssl
        /\ client.danger_accept_invalid_certs = opts.disable_ssl

====
